---- MODULE Spec2Model ----
(***************************************************************************)
(* Model of serve.py: a small HTTP server that maps a request target to a  *)
(* file below a base directory (random pick, exact file, listing).        *)
(*                                                                         *)
(* Text is modelled character by character: a string is a sequence of     *)
(* one-character strings, a filesystem path is a sequence of names, and   *)
(* the filesystem is a function from locations to nodes (directory, file, *)
(* symbolic link, absent).  A response records what was sent (status,      *)
(* headers, body) and, for the properties, what the handler did to send   *)
(* it: the mode it took, the file it opened, the links it rendered, the   *)
(* filesystem operations it made.                                         *)
(***************************************************************************)
EXTENDS Integers, Sequences, FiniteSets, TLC

VARIABLES fs, pc, req, pending, resp

vars == <<fs, pc, req, pending, resp>>

(***************************************************************************)
(* Characters                                                              *)
(***************************************************************************)
NUL == "<NUL>"
BSL == "\\"
REPL == "<U+FFFD>"

\* code points of the characters the model uses (ord()).
Ord ==
  [c \in {NUL, "#", "%", "&", "+", ".", "/", "0", "1", "2", "5", "7", ";", "=", "?",
          "C", "D", "F", "I", "L", "N", "V", "A", BSL, "_",
          "a", "b", "d", "e", "f", "g", "h", "i", "l", "m", "n", "o", "r", "s",
          "t", "u", "v", "x", "~", " "} |->
     CASE c = NUL -> 0   [] c = " " -> 32 [] c = "#" -> 35 [] c = "%" -> 37
       [] c = "&" -> 38  [] c = "+" -> 43 [] c = "." -> 46 [] c = "/" -> 47
       [] c = "0" -> 48  [] c = "1" -> 49 [] c = "2" -> 50 [] c = "5" -> 53
       [] c = "7" -> 55  [] c = ";" -> 59 [] c = "=" -> 61 [] c = "?" -> 63
       [] c = "A" -> 65  [] c = "C" -> 67 [] c = "D" -> 68 [] c = "F" -> 70
       [] c = "I" -> 73  [] c = "L" -> 76 [] c = "N" -> 78 [] c = "V" -> 86
       [] c = BSL -> 92  [] c = "_" -> 95
       [] c = "a" -> 97  [] c = "b" -> 98 [] c = "d" -> 100 [] c = "e" -> 101
       [] c = "f" -> 102 [] c = "g" -> 103 [] c = "h" -> 104 [] c = "i" -> 105
       [] c = "l" -> 108 [] c = "m" -> 109 [] c = "n" -> 110 [] c = "o" -> 111
       [] c = "r" -> 114 [] c = "s" -> 115 [] c = "t" -> 116 [] c = "u" -> 117
       [] c = "v" -> 118 [] c = "x" -> 120 [] c = "~" -> 126]

Alphabet == DOMAIN Ord

\* chr() restricted to the alphabet; any other byte decodes to a character
\* the model does not distinguish further.
Chr(n) == IF \E c \in Alphabet : Ord[c] = n
          THEN CHOOSE c \in Alphabet : Ord[c] = n
          ELSE REPL

HexVal(c) ==
  CASE c = "0" -> 0 [] c = "1" -> 1 [] c = "2" -> 2 [] c = "5" -> 5 [] c = "7" -> 7
    [] c \in {"a", "A"} -> 10 [] c \in {"b"} -> 11 [] c \in {"C"} -> 12
    [] c \in {"d", "D"} -> 13 [] c \in {"e"} -> 14 [] c \in {"f", "F"} -> 15
    [] OTHER -> -1

(***************************************************************************)
(* str methods                                                             *)
(***************************************************************************)
StartsWith(s, p) == Len(s) >= Len(p) /\ SubSeq(s, 1, Len(p)) = p

EndsWith(s, p) == Len(s) >= Len(p) /\ SubSeq(s, Len(s) - Len(p) + 1, Len(s)) = p

\* sub in s
Contains(s, sub) == \E i \in 1..(Len(s) - Len(sub) + 1) : SubSeq(s, i, i + Len(sub) - 1) = sub

\* s.find(c) for a one-character c, 1-based; 0 when absent
Find(s, c) == IF \E i \in 1..Len(s) : s[i] = c
              THEN CHOOSE i \in 1..Len(s) : s[i] = c /\ \A j \in 1..(i - 1) : s[j] # c
              ELSE 0

\* s.split(c)
RECURSIVE Split(_, _)
Split(s, c) ==
  LET i == Find(s, c)
  IN  IF i = 0 THEN <<s>>
      ELSE <<SubSeq(s, 1, i - 1)>> \o Split(SubSeq(s, i + 1, Len(s)), c)

\* sep.join(parts)
RECURSIVE Join(_, _)
Join(parts, sep) ==
  IF parts = <<>> THEN <<>>
  ELSE IF Len(parts) = 1 THEN parts[1]
  ELSE parts[1] \o sep \o Join(Tail(parts), sep)

\* [x for x in parts if x]
RECURSIVE NonEmpty(_)
NonEmpty(parts) ==
  IF parts = <<>> THEN <<>>
  ELSE IF parts[1] = <<>> THEN NonEmpty(Tail(parts))
  ELSE <<parts[1]>> \o NonEmpty(Tail(parts))

\* lexicographic comparison of two strings by code point (str.__lt__)
RECURSIVE StrLess(_, _)
StrLess(a, b) ==
  IF b = <<>> THEN FALSE
  ELSE IF a = <<>> THEN TRUE
  ELSE IF Ord[a[1]] # Ord[b[1]] THEN Ord[a[1]] < Ord[b[1]]
  ELSE StrLess(Tail(a), Tail(b))

StrLeq(a, b) == a = b \/ StrLess(a, b)

\* lexicographic comparison of two sequences of strings (Path.__lt__ on parts)
RECURSIVE PartsLess(_, _)
PartsLess(a, b) ==
  IF b = <<>> THEN FALSE
  ELSE IF a = <<>> THEN TRUE
  ELSE IF a[1] # b[1] THEN StrLess(a[1], b[1])
  ELSE PartsLess(Tail(a), Tail(b))

(***************************************************************************)
(* urllib.parse                                                            *)
(***************************************************************************)
\* urllib.parse.unquote: %XX becomes the character with that code
RECURSIVE unquote(_)
unquote(s) ==
  IF s = <<>> THEN <<>>
  ELSE IF s[1] = "%" /\ Len(s) >= 3 /\ HexVal(s[2]) >= 0 /\ HexVal(s[3]) >= 0
       THEN <<Chr(16 * HexVal(s[2]) + HexVal(s[3]))>> \o unquote(SubSeq(s, 4, Len(s)))
       ELSE <<s[1]>> \o unquote(Tail(s))

\* name.replace('+', ' ')
PlusToSpace(s) == [i \in 1..Len(s) |-> IF s[i] = "+" THEN " " ELSE s[i]]

\* first index of a character of cs in s at or after position from; Len(s)+1 if none
FirstOf(s, cs, from) ==
  IF \E i \in from..Len(s) : s[i] \in cs
  THEN CHOOSE i \in from..Len(s) : s[i] \in cs /\ \A j \in from..(i - 1) : s[j] \notin cs
  ELSE Len(s) + 1

\* s.rfind(c), 0 when absent
RFind(s, c) == IF \E i \in 1..Len(s) : s[i] = c
               THEN CHOOSE i \in 1..Len(s) : s[i] = c /\ \A j \in (i + 1)..Len(s) : s[j] # c
               ELSE 0

\* s up to the first c (all of s when c is absent), and s after it
Before(s, c) == IF Find(s, c) = 0 THEN s ELSE SubSeq(s, 1, Find(s, c) - 1)
After(s, c) == IF Find(s, c) = 0 THEN <<>> ELSE SubSeq(s, Find(s, c) + 1, Len(s))

\* urlsplit: a leading "//" starts a netloc, which ends at the next '/', '?' or '#'
strip_netloc(url) ==
  IF StartsWith(url, <<"/", "/">>)
  THEN SubSeq(url, FirstOf(url, {"/", "?", "#"}, 3), Len(url))
  ELSE url

\* urlparse: the parameters after ';' in the last path segment are split off
strip_params(fullpath) ==
  SubSeq(fullpath, 1, FirstOf(fullpath, {";"}, RFind(fullpath, "/") + 1) - 1)

split_query(u) == [path |-> strip_params(Before(u, "?")), query |-> After(u, "?")]

\* urllib.parse.urlparse for a request target (no scheme): the netloc after
\* a leading "//", the fragment after '#', the query after '?', the
\* parameters after ';' in the last path segment.
urlparse(url) == split_query(Before(strip_netloc(url), "#"))

\* dict(parse_qsl(qs, keep_blank_values=True)).keys()
qsl_keys(pairs) ==
  { unquote(PlusToSpace(Split(pairs[i], "=")[1])) :
      i \in { j \in 1..Len(pairs) : pairs[j] # <<>> } }

parse_qsl_keys(qs) == qsl_keys(Split(qs, "&"))

(***************************************************************************)
(* parse_url                                                               *)
(***************************************************************************)
LIST == <<"l", "i", "s", "t">>
INVALID == <<"_", "_", "I", "N", "V", "A", "L", "I", "D", "_", "_">>

\* _is_safe_segment without the test of line 18
_is_safe_segment_any_start(seg) ==
  /\ seg # <<>>
  /\ seg \notin {<<".">>, <<".", ".">>}
  /\ ~ (\E i \in 1..Len(seg) : seg[i] \in {BSL, NUL})

_is_safe_segment(seg) ==
  /\ seg # <<>>
  /\ seg \notin {<<".">>, <<".", ".">>}
  /\ ~ (\E i \in 1..Len(seg) : seg[i] \in {BSL, NUL})
  /\ ~ (seg[1] \in {"/", "~"})

\* path.strip("/").split("/") without the empty parts
raw_segments(path) == NonEmpty(Split(path, "/"))

\* lines 35-36: a bare "?list" anywhere in the URL adds the key
with_bare_list(keys, url_path) ==
  IF LIST \notin keys /\ Contains(url_path, <<"?">> \o LIST)
  THEN keys \cup {LIST}
  ELSE keys

\* the keys of the query dict parse_url returns
parse_url_query(url_path) ==
  with_bare_list(parse_qsl_keys(urlparse(url_path).query), url_path)

\* lines 41-49
checked_segments(segs) ==
  IF segs = <<>> THEN <<>>
  ELSE IF \E i \in 1..Len(segs) : ~ _is_safe_segment(segs[i]) THEN <<INVALID>>
  ELSE segs

\* lines 38-49
segments_of(path) ==
  IF path = <<"/">> THEN <<>> ELSE checked_segments(raw_segments(path))

parse_url_segments(url_path) == segments_of(unquote(urlparse(url_path).path))

parse_url(url_path) ==
  [segments |-> parse_url_segments(url_path), query |-> parse_url_query(url_path)]

(***************************************************************************)
(* The filesystem                                                          *)
(***************************************************************************)
DOT_HTML == <<".", "h", "t", "m", "l">>
SRV == <<"s", "r", "v">>
OUT == <<"o", "u", "t">>
D == <<"d">>
E == <<"e">>
F_HTML == <<"f">> \o DOT_HTML
R_HTML == <<"r">> \o DOT_HTML
F_HTML_HTML == F_HTML \o DOT_HTML
TILDE_HTML == <<"~", "t">> \o DOT_HTML
T_TXT == <<"t", ".", "t", "x", "t">>

\* args.base resolved at start-up: /srv
base_dir == <<SRV>>

Absent == [kind |-> "none", data |-> <<>>, target |-> <<>>]
Dir == [kind |-> "dir", data |-> <<>>, target |-> <<>>]
File(bytes) == [kind |-> "file", data |-> bytes, target |-> <<>>]
Link(to) == [kind |-> "link", data |-> <<>>, target |-> to]

\* The part of the tree that every layout has: /out is outside base_dir.
FixedTree ==
  [p \in { <<SRV>>, <<OUT>>, <<OUT, F_HTML>>, <<SRV, R_HTML>>, <<SRV, D>>,
           <<SRV, D, F_HTML_HTML>>, <<SRV, D, T_TXT>>, <<SRV, D, TILDE_HTML>>,
           <<SRV, D, E>>, <<SRV, D, E, F_HTML>>,
           <<SRV, INVALID>>, <<SRV, INVALID, F_HTML>> } |->
     CASE p = <<OUT, F_HTML>> -> File(<<"S", "S", "S", "S">>)
       [] p = <<SRV, R_HTML>> -> File(<<"R">>)
       [] p = <<SRV, D, F_HTML_HTML>> -> File(<<"F", "F">>)
       [] p = <<SRV, D, T_TXT>> -> File(<<"T", "T", "T">>)
       [] p = <<SRV, D, TILDE_HTML>> -> File(<<"~">>)
       [] p = <<SRV, D, E, F_HTML>> -> File(<<"G", "G">>)
       [] p = <<SRV, INVALID, F_HTML>> -> File(<<"I">>)
       [] OTHER -> Dir]

\* What /srv/d/f.html can be.
DVariants == { Absent, File(<<"F">>), Dir, Link(<<OUT, F_HTML>>) }

\* What /srv/e and /srv/e/f.html can be.
EVariants ==
  { <<Absent, Absent>>, <<Link(<<OUT>>), Absent>>, <<Dir, Absent>>, <<Dir, File(<<"E">>)>>,
    <<Dir, Link(<<SRV, D, F_HTML>>)>>, <<Dir, Link(<<SRV, D, T_TXT>>)>>,
    <<Dir, Link(<<OUT, F_HTML>>)>> }

Layout(dv, ev) ==
  [p \in DOMAIN FixedTree \cup { <<SRV, D, F_HTML>>, <<SRV, E>>, <<SRV, E, F_HTML>> } |->
     CASE p = <<SRV, D, F_HTML>> -> dv
       [] p = <<SRV, E>> -> ev[1]
       [] p = <<SRV, E, F_HTML>> -> ev[2]
       [] OTHER -> FixedTree[p]]

Layouts == { Layout(dv, ev) : dv \in DVariants, ev \in EVariants }

\* os.lstat: the node at a canonical location, symbolic links not followed
Lstat(f, p) == IF p \in DOMAIN f THEN f[p] ELSE IF p = <<>> THEN Dir ELSE Absent

NoPath == [ok |-> FALSE, path |-> <<>>]
SomePath(p) == [ok |-> TRUE, path |-> p]

\* Path.resolve(strict=True): walk the components from the root, following
\* every symbolic link; fuel bounds the links followed (ELOOP).
RECURSIVE Walk(_, _, _, _)
Step(f, nxt, node, rest, fuel) ==
  CASE node.kind = "none" -> NoPath
    [] node.kind = "link" ->
         IF fuel = 0 THEN NoPath
         ELSE Walk(f, <<>>, node.target \o Tail(rest), fuel - 1)
    [] node.kind = "dir" -> Walk(f, nxt, Tail(rest), fuel)
    [] OTHER -> IF Tail(rest) = <<>> THEN SomePath(nxt) ELSE NoPath

Walk(f, cur, rest, fuel) ==
  IF rest = <<>> THEN SomePath(cur)
  ELSE Step(f, Append(cur, rest[1]), Lstat(f, Append(cur, rest[1])), rest, fuel)

resolve(f, p) == Walk(f, <<>>, p, Cardinality(DOMAIN f))

\* os.stat: the node a path leads to, symbolic links followed
NodeAt(f, r) == IF r.ok THEN Lstat(f, r.path) ELSE Absent
Stat(f, p) == NodeAt(f, resolve(f, p))

exists(f, p) == Stat(f, p).kind # "none"
is_dir(f, p) == Stat(f, p).kind = "dir"
is_file(f, p) == Stat(f, p).kind = "file"

\* rp.relative_to(rb) succeeds
IsRelativeTo(rp, rb) == Len(rp) >= Len(rb) /\ SubSeq(rp, 1, Len(rb)) = rb

\* rp.relative_to(rb).parts
relative_to(rp, rb) == SubSeq(rp, Len(rb) + 1, Len(rp))

\* os.scandir(p): the names in the directory p leads to
entries_of(f, r) ==
  IF ~ r.ok THEN {}
  ELSE { q[Len(q)] : q \in { x \in DOMAIN f : /\ Len(x) = Len(r.path) + 1
                                              /\ SubSeq(x, 1, Len(r.path)) = r.path
                                              /\ f[x].kind # "none" } }

scandir(f, p) == entries_of(f, resolve(f, p))

\* root.rglob("*.html"): every entry below root whose name ends in ".html";
\* the walk descends into directories but not into links to directories.
RECURSIVE rglob(_, _)
rglob_from(f, root, rroot, names) ==
  { Append(root, n) : n \in { m \in names : EndsWith(m, DOT_HTML) } }
    \cup UNION { rglob(f, Append(root, n)) :
                   n \in { m \in names : Lstat(f, Append(rroot, m)).kind = "dir" } }

rglob(f, root) == rglob_from(f, root, resolve(f, root).path, scandir(f, root))

\* path.read_bytes(): the bytes, or OSError
NoBytes == [ok |-> FALSE, data |-> <<>>]
bytes_of(node) ==
  IF node.kind = "file" THEN [ok |-> TRUE, data |-> node.data] ELSE NoBytes

read_bytes(f, p) == bytes_of(Stat(f, p))

(***************************************************************************)
(* pathlib names                                                           *)
(***************************************************************************)
\* PurePath.suffix of a name: from the last '.', unless it leads or ends the name
suffix_from(name, i) ==
  IF 1 < i /\ i < Len(name) THEN SubSeq(name, i, Len(name)) ELSE <<>>

suffix(name) == suffix_from(name, RFind(name, "."))

\* name.with_suffix("")
stem_of(name) == SubSeq(name, 1, Len(name) - Len(suffix(name)))

\* rel.with_suffix("").as_posix() for the parts of rel
with_suffix_empty(parts) ==
  Join(SubSeq(parts, 1, Len(parts) - 1) \o <<stem_of(parts[Len(parts)])>>, <<"/">>)

\* s.removesuffix(".html")
removesuffix_html(s) ==
  IF EndsWith(s, DOT_HTML) THEN SubSeq(s, 1, Len(s) - Len(DOT_HTML)) ELSE s

\* html.escape(s)
RECURSIVE html_escape(_)
html_escape(s) ==
  IF s = <<>> THEN <<>>
  ELSE (CASE s[1] = "&" -> <<"&", "a", "m", "p", ";">>
          [] s[1] = "<" -> <<"&", "l", "t", ";">>
          [] s[1] = ">" -> <<"&", "g", "t", ";">>
          [] s[1] = "\"" -> <<"&", "q", "u", "o", "t", ";">>
          [] s[1] = "'" -> <<"&", "#", "x", "2", "7", ";">>
          [] OTHER -> <<s[1]>>) \o html_escape(Tail(s))

(***************************************************************************)
(* list_html_files and try_serve_exact                                     *)
(***************************************************************************)
None == [some |-> FALSE, val |-> <<>>]
Some(v) == [some |-> TRUE, val |-> v]

\* lines 65-74: p is kept when it is a file that resolves inside base_dir
kept(f, p, rp, rb) == is_file(f, p) /\ rp.ok /\ rb.ok /\ IsRelativeTo(rp.path, rb.path)

\* The files list_html_files returns, as the set of entries found (p) with
\* the resolved path appended for each (rp): the list holds one rp per entry,
\* so a file found under two names is in it twice.
scan(f, root) ==
  IF ~ exists(f, root) \/ ~ is_dir(f, root) THEN {}
  ELSE { [p |-> p, rp |-> resolve(f, p).path] :
           p \in { x \in rglob(f, root) : kept(f, x, resolve(f, x), resolve(f, base_dir)) } }

list_html_files(f, only_dir) ==
  scan(f, IF only_dir.some THEN Append(base_dir, only_dir.val) ELSE base_dir)

\* lines 88-90
rel_of(joined) == IF EndsWith(joined, DOT_HTML) THEN joined ELSE joined \o DOT_HTML

\* accept without the relative_to test of line 98
accept_unconfined(f, resolved, rbase) ==
  IF ~ resolved.ok \/ ~ rbase.ok
  THEN NoPath
  ELSE IF is_file(f, resolved.path)
          /\ suffix(resolved.path[Len(resolved.path)]) = DOT_HTML
       THEN resolved
       ELSE NoPath

\* lines 95-105
accept(f, resolved, rbase) ==
  IF ~ resolved.ok \/ ~ rbase.ok \/ ~ IsRelativeTo(resolved.path, rbase.path)
  THEN NoPath
  ELSE IF is_file(f, resolved.path)
          /\ suffix(resolved.path[Len(resolved.path)]) = DOT_HTML
       THEN resolved
       ELSE NoPath

try_serve_exact(f, segments) ==
  IF Len(segments) < 2 THEN NoPath
  ELSE accept(f, resolve(f, base_dir \o Split(rel_of(Join(segments, <<"/">>)), "/")),
              resolve(f, base_dir))

(***************************************************************************)
(* Responses                                                               *)
(***************************************************************************)
\* The value of a Content-Type header: media type and charset parameter
\* (send_error's default header and the handler's own carry the same value).
HtmlUtf8 == [media |-> "text/html", charset |-> "utf-8"]

Response(status, has_clen, body, mode, only_dir, file, groups, ops, toread) ==
  [status |-> status, ctype |-> HtmlUtf8, has_clen |-> has_clen,
   clen |-> IF has_clen THEN Len(body) ELSE 0, body |-> body,
   mode |-> mode, only_dir |-> only_dir, file |-> file, groups |-> groups,
   ops |-> ops, toread |-> toread]

NoResponse == Response(0, FALSE, <<>>, "none", None, NoPath, <<>>, {}, NoPath)

\* BaseHTTPRequestHandler.send_error(code, message): an error page with its
\* Content-Type and Content-Length
send_error(code, message, mode, only_dir, ops) ==
  Response(code, TRUE, <<"<!DOCTYPE HTML>", message, "</html>">>, mode, only_dir,
           NoPath, <<>>, ops, NoPath)

\* do_GET lines 138-146: the 404 of an empty candidate list
no_files_found(only_dir, ops) ==
  Response(404, FALSE,
           <<"<h1>", "No HTML files found">>
             \o (IF only_dir.some
                 THEN <<" in directory ">> \o html_escape(only_dir.val)
                 ELSE <<>>)
             \o <<"</h1>">>,
           "random", only_dir, NoPath, <<>>, ops, NoPath)

\* _serve_file once the path is known and before it is read
file_plan(mode, only_dir, path, ops) ==
  Response(0, FALSE, <<>>, mode, only_dir, NoPath, <<>>, ops, SomePath(path))

\* opened is the file the open() of read_bytes reached
served(plan, got, opened, ops) ==
  IF ~ got.ok
  THEN send_error(500, "Failed to read file", plan.mode, plan.only_dir, ops)
  ELSE Response(200, TRUE, got.data, plan.mode, plan.only_dir, opened,
                <<>>, ops, NoPath)

_serve_file(f, plan) ==
  served(plan, read_bytes(f, plan.toread.path), resolve(f, plan.toread.path),
         plan.ops \cup {"read"})

(***************************************************************************)
(* _serve_listing                                                          *)
(***************************************************************************)
\* sorted(files): the resolved paths in ascending order, one per entry
RECURSIVE sorted_files(_)
least_first(entries, m) == <<m.rp>> \o sorted_files(entries \ {m})

sorted_files(entries) ==
  IF entries = {} THEN <<>>
  ELSE least_first(entries,
                   CHOOSE e \in entries : \A o \in entries : ~ PartsLess(o.rp, e.rp))

\* lines 175-181 for one file, given the parts of its path below base
item_of(file, parts) ==
  IF Len(parts) < 2 THEN <<>>
  ELSE << [directory |-> parts[1],
           name      |-> with_suffix_empty(parts),
           display   |-> removesuffix_html(parts[Len(parts)]),
           file      |-> file] >>

\* the (directory, name, display) of every file two or more parts below base
RECURSIVE listing_items(_, _)
listing_items(files, rbase) ==
  IF files = <<>> THEN <<>>
  ELSE (IF ~ IsRelativeTo(files[1], rbase) THEN <<>>
        ELSE item_of(files[1], relative_to(files[1], rbase)))
       \o listing_items(Tail(files), rbase)

\* sorted(items, key=lambda x: x[1]): stable, by display
RECURSIVE insert_by_display(_, _)
insert_by_display(x, s) ==
  IF s = <<>> THEN <<x>>
  ELSE IF StrLess(x.display, s[1].display) THEN <<x>> \o s
  ELSE <<s[1]>> \o insert_by_display(x, Tail(s))

RECURSIVE sorted_by_display(_)
sorted_by_display(s) ==
  IF s = <<>> THEN <<>>
  ELSE insert_by_display(s[Len(s)], sorted_by_display(SubSeq(s, 1, Len(s) - 1)))

\* sorted(groups): the directory names in ascending order
RECURSIVE sorted_names(_)
least_name_first(names, m) == <<m>> \o sorted_names(names \ {m})

sorted_names(names) ==
  IF names = {} THEN <<>>
  ELSE least_name_first(names, CHOOSE n \in names : \A o \in names : ~ StrLess(o, n))

\* groups, as rendered: one per directory, its links in display order
groups_of(items, dirs) ==
  [k \in 1..Len(dirs) |->
     [directory |-> dirs[k],
      links |-> sorted_by_display(SelectSeq(items, LAMBDA x : x.directory = dirs[k]))]]

listing_groups(items) ==
  groups_of(items, sorted_names({ items[i].directory : i \in 1..Len(items) }))

RECURSIVE render_links(_)
render_links(links) ==
  IF links = <<>> THEN <<>>
  ELSE <<"  <li><a href=\"/">> \o html_escape(links[1].name) \o <<"\">">>
         \o html_escape(links[1].display) \o <<"</a></li>", "\n">>
         \o render_links(Tail(links))

RECURSIVE render_groups(_)
render_groups(groups) ==
  IF groups = <<>> THEN <<>>
  ELSE <<"<h2>">> \o html_escape(groups[1].directory) \o <<"/</h2><ul>", "\n">>
         \o render_links(groups[1].links) \o <<"</ul>", "\n">>
         \o render_groups(Tail(groups))

render_listing(only_dir, groups) ==
  <<"<!doctype html>...<title>", "Visualizations">>
    \o (IF only_dir.some THEN <<" - ">> \o html_escape(only_dir.val) ELSE <<>>)
    \o <<"</title>...<body>", "\n">>
    \o render_groups(groups) \o <<"</body></html>">>

listing_response(only_dir, groups) ==
  Response(200, TRUE, render_listing(only_dir, groups), "listing", only_dir,
           NoPath, groups, {"scan"}, NoPath)

_serve_listing(f, only_dir) ==
  listing_response(only_dir,
    listing_groups(listing_items(sorted_files(list_html_files(f, only_dir)),
                                 resolve(f, base_dir).path)))

(***************************************************************************)
(* do_GET                                                                  *)
(***************************************************************************)
\* segments[0] if len(segments) == 1 else None
only_dir_of(segments) == IF Len(segments) = 1 THEN Some(segments[1]) ELSE None

\* lines 127-132
exact_plans(exact) ==
  IF exact.ok
  THEN { file_plan("exact", None, exact.path, {"resolve"}) }
  ELSE { send_error(404, "File not found", "exact", None, {"resolve"}) }

\* lines 136-149
random_plans(only_dir, candidates) ==
  IF candidates = {}
  THEN { no_files_found(only_dir, {"scan"}) }
  ELSE { file_plan("random", only_dir, c.rp, {"scan"}) : c \in candidates }

\* route with the test of line 126 ahead of the test of line 120
route_exact_first(f, segments, query) ==
  IF segments = <<INVALID>>
  THEN { send_error(400, "Invalid path", "invalid", None, {}) }
  ELSE IF Len(segments) >= 2
  THEN exact_plans(try_serve_exact(f, segments))
  ELSE IF LIST \in query
  THEN { _serve_listing(f, only_dir_of(segments)) }
  ELSE random_plans(only_dir_of(segments), list_html_files(f, only_dir_of(segments)))

\* lines 115-149 for the parsed request
route(f, segments, query) ==
  IF segments = <<INVALID>>
  THEN { send_error(400, "Invalid path", "invalid", None, {}) }
  ELSE IF LIST \in query
  THEN { _serve_listing(f, only_dir_of(segments)) }
  ELSE IF Len(segments) >= 2
  THEN exact_plans(try_serve_exact(f, segments))
  ELSE random_plans(only_dir_of(segments), list_html_files(f, only_dir_of(segments)))

\* do_GET up to the point where a file is to be read: the responses it can
\* send at once, and for a file to serve the path it has settled on (one per
\* candidate random.choice can return).
do_GET_plans(f, path) == route(f, parse_url_segments(path), parse_url_query(path))

\* the rest of do_GET: _serve_file reads the file it was given
finish(f, plan) == IF plan.toread.ok THEN _serve_file(f, plan) ELSE plan

\* the responses of a whole do_GET on filesystem f
do_GET(f, path) == { finish(f, plan) : plan \in do_GET_plans(f, path) }

(***************************************************************************)
(* Requests                                                                *)
(***************************************************************************)
\* the most path segments a request of the model has
MaxSegs == 2

\* segments that pass _is_safe_segment, as they are written in a URL
PlainSegs == { D, E, <<"f">>, F_HTML, INVALID }

\* segments that do not, or that vanish: "..", ".", "%2e%2e", "~t", "a%5Cb",
\* "%00", and the empty segment of a doubled or trailing slash
OddSegs == { <<".", ".">>, <<".">>, <<"%", "2", "e", "%", "2", "e">>, <<"~", "t">>,
             <<"a", "%", "5", "C", "b">>, <<"%", "0", "0">>, <<>> }

SeqsUpTo(S, n) == UNION { [1..k -> S] : k \in 0..n }

InsertAt(s, i, x) == SubSeq(s, 1, i) \o <<x>> \o SubSeq(s, i + 1, Len(s))

\* self.path never starts with "//": the request line's leading slashes are
\* collapsed before do_GET runs.
SegLists ==
  SeqsUpTo(PlainSegs, MaxSegs)
    \cup { InsertAt(s, i, x) : <<s, i, x>> \in
             { t \in SeqsUpTo(PlainSegs, MaxSegs - 1) \X (0..(MaxSegs - 1)) \X OddSegs :
                 t[2] <= Len(t[1]) /\ ~ (t[3] = <<>> /\ t[2] = 0) } }

Queries == { <<>>, <<"?">> \o LIST, <<"?">> \o LIST \o <<"=">>, <<"?">> \o LIST \o <<"s">>,
             <<"?", "x", "=", "1">> }

Requests == { <<"/">> \o Join(s, <<"/">>) \o q : s \in SegLists, q \in Queries }

(***************************************************************************)
(* The server                                                              *)
(***************************************************************************)
Init ==
  /\ fs \in Layouts
  /\ pc = "idle"
  /\ req = <<>>
  /\ pending = NoResponse
  /\ resp = NoResponse

\* a request arrives and do_GET answers it
Get ==
  /\ pc = "idle"
  /\ \E path \in Requests :
       /\ req' = path
       /\ resp' \in do_GET(fs, path)
  /\ pc' = "done"
  /\ UNCHANGED <<fs, pending>>

\* the same request again, the filesystem as it was
GetAgain ==
  /\ pc = "done"
  /\ resp' \in do_GET(fs, req)
  /\ UNCHANGED <<fs, pc, req, pending>>

\* the connection is closed
Close ==
  /\ pc = "done"
  /\ pc' = "idle"
  /\ req' = <<>>
  /\ resp' = NoResponse
  /\ UNCHANGED <<fs, pending>>

\* something outside the server changes /srv/d/f.html or /srv/e
ChangeFs ==
  /\ \E dv \in DVariants, ev \in EVariants :
       /\ fs' = Layout(dv, ev)
       /\ fs' # fs
       /\ \/ fs'[<<SRV, D, F_HTML>>] = fs[<<SRV, D, F_HTML>>]
          \/ /\ fs'[<<SRV, E>>] = fs[<<SRV, E>>]
             /\ fs'[<<SRV, E, F_HTML>>] = fs[<<SRV, E, F_HTML>>]
  /\ UNCHANGED <<pc, req, pending, resp>>

ChangeFsIdle == pc = "idle" /\ ChangeFs

Next == Get \/ GetAgain \/ Close \/ ChangeFsIdle

Spec == Init /\ [][Next]_vars

\* do_GET in two steps, the filesystem free to change between them
Resolve ==
  /\ pc = "idle"
  /\ \E path \in Requests :
       /\ req' = path
       /\ pending' \in do_GET_plans(fs, path)
  /\ pc' = "resolved"
  /\ UNCHANGED <<fs, resp>>

Serve ==
  /\ pc = "resolved"
  /\ resp' = finish(fs, pending)
  /\ pending' = NoResponse
  /\ pc' = "done"
  /\ UNCHANGED <<fs, req>>

NextRace == Resolve \/ Serve \/ Close \/ ChangeFs

SpecRace == Init /\ [][NextRace]_vars

(***************************************************************************)
(* Properties                                                              *)
(***************************************************************************)
\* the '/'-separated segments of the percent-decoded URL path, empty ones included
url_segments(url) == Split(unquote(urlparse(url).path), "/")

\* a segment the sanitizer is to refuse: ".", "..", one holding a backslash
\* or a NUL, one starting with '~' or '/'
refused(seg) ==
  \/ seg \in { <<".">>, <<".", ".">> }
  \/ \E i \in 1..Len(seg) : seg[i] \in {BSL, NUL}
  \/ seg # <<>> /\ seg[1] \in {"~", "/"}

has_refused(url) == \E i \in 1..Len(url_segments(url)) : refused(url_segments(url)[i])

\* C1: a request whose decoded path has a segment ".", "..", with a backslash
\* or NUL, or starting with '~' makes parse_url return the invalid sentinel and
\* is answered 400 with no file scanned, resolved or read, whatever its query.
C1_UnsafePathRejected ==
  (pc = "done" /\ has_refused(req))
    => /\ parse_url(req).segments = <<INVALID>>
       /\ resp.status = 400
       /\ resp.ops = {}
       /\ ~ resp.file.ok
       /\ resp.groups = <<>>

\* a percent-encoded ".." in a request that asks for a listing was answered
C1_Witness ==
  /\ pc = "done"
  /\ has_refused(req)
  /\ Contains(req, <<"%", "2", "e", "%", "2", "e">>)
  /\ Contains(req, <<"?">> \o LIST)
  /\ resp.status = 400

\* the responses of each mode, for the segments and the filesystem given
listing_of(f, segments) == { _serve_listing(f, only_dir_of(segments)) }
exact_of(f, segments) ==
  { finish(f, plan) : plan \in exact_plans(try_serve_exact(f, segments)) }
random_of(f, segments) ==
  { finish(f, plan) :
      plan \in random_plans(only_dir_of(segments),
                            list_html_files(f, only_dir_of(segments))) }

mode_by_precedence(f, segments, query, r) ==
  IF LIST \in query
  THEN /\ r \in listing_of(f, segments)
       /\ r.mode = "listing"
       /\ r.only_dir = (IF Len(segments) = 1 THEN Some(segments[1]) ELSE None)
  ELSE IF Len(segments) >= 2
  THEN /\ r \in exact_of(f, segments)
       /\ r.mode = "exact"
       /\ "scan" \notin r.ops
  ELSE /\ r \in random_of(f, segments)
       /\ r.mode = "random"
       /\ r.only_dir = (IF Len(segments) = 1 THEN Some(segments[1]) ELSE None)
       /\ "scan" \in r.ops

exact_target(f, rel) == resolve(f, base_dir \o Split(rel, "/"))

servable(f, target) ==
  /\ target.ok
  /\ Lstat(f, target.path).kind = "file"
  /\ EndsWith(target.path[Len(target.path)], DOT_HTML)
  /\ IsRelativeTo(target.path, base_dir)
  /\ Len(target.path) > Len(base_dir)

exact_answer(f, target, r) ==
  IF servable(f, target)
  THEN /\ r.status = 200
       /\ r.file = target
       /\ r.body = f[target.path].data
  ELSE r.status = 404

joined_html(joined) ==
  IF EndsWith(joined, DOT_HTML) THEN joined ELSE joined \o DOT_HTML

link_positions(groups) ==
  UNION { { <<k, j>> : j \in 1..Len(groups[k].links) } : k \in 1..Len(groups) }

link_at(groups, t) == groups[t[1]].links[t[2]]

\* C2: whatever the filesystem does while a request is handled, a 200 file
\* response carries the bytes of a file below base_dir, and every link of a
\* listing names a file below base_dir.
C2_NeverOutsideBase ==
  /\ (pc = "done" /\ resp.status = 200 /\ resp.mode \in {"exact", "random"})
       => (resp.file.ok /\ IsRelativeTo(resp.file.path, base_dir))
  /\ (pc = "done" /\ resp.mode = "listing")
       => \A t \in link_positions(resp.groups) :
            IsRelativeTo(link_at(resp.groups, t).file, base_dir)

\* the regular ".html" files below the directory dir, at any depth
html_below(f, dir) ==
  { x \in DOMAIN f : /\ Len(x) > Len(dir)
                     /\ SubSeq(x, 1, Len(dir)) = dir
                     /\ f[x].kind = "file"
                     /\ EndsWith(x[Len(x)], DOT_HTML) }

random_from(f, dir, r) ==
  (Lstat(f, dir).kind = "dir" /\ html_below(f, dir) # {})
    => (r.status = 200 /\ r.file.ok /\ r.file.path \in html_below(f, dir))

\* C5: a request of one safe segment, without 'list', that names a
\* subdirectory of base_dir holding an ".html" file is answered 200 with a
\* file of that subdirectory, whatever the directory is called.
C5_RandomFromSubdirectory ==
  (pc = "done" /\ Len(NonEmpty(url_segments(req))) = 1 /\ ~ has_refused(req)
     /\ LIST \notin parse_url(req).query)
    => random_from(fs, Append(base_dir, NonEmpty(url_segments(req))[1]), resp)

round_trip(f, link, r) ==
  /\ r.mode = "exact"
  /\ r.status = 200
  /\ r.file = SomePath(link.file)
  /\ r.body = f[link.file].data

\* C6: a GET of the href of any link of a listing ("/" and the name) is
\* answered in exact-file mode with the bytes of the file the link was made for.
C6_ListingRoundTrip ==
  (pc = "done" /\ resp.mode = "listing")
    => \A t \in link_positions(resp.groups) :
         \A r \in do_GET(fs, <<"/">> \o link_at(resp.groups, t).name) :
           round_trip(fs, link_at(resp.groups, t), r)

\* C7: every response carries Content-Type: text/html; charset=utf-8 and a
\* Content-Length equal to the length of its body.
C7_Headers ==
  pc = "done"
    => /\ resp.ctype = HtmlUtf8
       /\ resp.has_clen
       /\ resp.clen = Len(resp.body)

deep(file) == Len(file) >= Len(base_dir) + 2

scanned(f, only_dir) == { e.rp : e \in list_html_files(f, only_dir) }

listing_shape(f, r) ==
  /\ r.status = 200
  /\ \A file \in scanned(f, r.only_dir) :
       deep(file) =>
         Cardinality({ t \in link_positions(r.groups) : link_at(r.groups, t).file = file }) = 1
  /\ \A t \in link_positions(r.groups) :
       /\ link_at(r.groups, t).file \in scanned(f, r.only_dir)
       /\ deep(link_at(r.groups, t).file)
       /\ r.groups[t[1]].directory = link_at(r.groups, t).file[Len(base_dir) + 1]
  /\ \A k, m \in 1..Len(r.groups) : r.groups[k].directory = r.groups[m].directory => k = m
  /\ \A k \in 1..Len(r.groups) :
       \A i, j \in 1..Len(r.groups[k].links) :
         i < j => StrLeq(r.groups[k].links[i].display, r.groups[k].links[j].display)
  /\ (r.only_dir.some /\ Lstat(f, Append(base_dir, r.only_dir.val)).kind \in {"none", "file"})
       => r.groups = <<>>

\* C8: a listing has exactly one link for each scanned file two or more levels
\* below base_dir and none for a file directly in it, each under the heading
\* of the file's top-level directory, each group in ascending order of display
\* name; a filter that names no directory gives a 200 listing without links.
C8_ListingContents ==
  (pc = "done" /\ resp.mode = "listing") => listing_shape(fs, resp)

\* C9: a request whose query string has no parameter named 'list' is not
\* answered with a listing.
C9_ListingOnlyByKey ==
  (pc = "done" /\ LIST \notin parse_qsl_keys(urlparse(req).query))
    => resp.mode # "listing"

\* C10: a request whose path has no refused segment gets its non-empty
\* segments from parse_url and is never answered 400.
C10_SafePathAccepted ==
  (pc = "done" /\ ~ has_refused(req))
    => /\ parse_url(req).segments = NonEmpty(url_segments(req))
       /\ resp.status # 400

====
